---- MODULE Spec2Model ----
(***************************************************************************)
(* Model of notebook_auto_alert.py: the alert Dispatcher (_show_alert),    *)
(* the label probe (_get_notebook_name), the Notifier search               *)
(* (_get_alert_script_path), the session API (done, error, enable_alerts)  *)
(* and the traceback hook (custom_showtraceback) with its two module       *)
(* globals.                                                                *)
(*                                                                         *)
(* Python strings are TLA+ strings; s[:n] is Slice(s, n).  The three       *)
(* non-ASCII console glyphs of the source are written "(warn)", "(check)"  *)
(* and "(cross)".  Python's None is the record None, a returned string s   *)
(* is Some(s).                                                             *)
(***************************************************************************)
EXTENDS Integers, Sequences, FiniteSets, TLC

VARIABLES
    shell,                      \* what "from IPython import get_ipython; get_ipython()" gives
    env,                        \* the file system / process environment the Dispatcher sees
    loaded,                     \* the module body has run (import)
    _error_handler_installed,   \* module global, line 162
    _error_occurred,            \* module global, line 163
    wrapLayers,                 \* custom_showtraceback layers now on ip.showtraceback
    nDone, nError, nExc,        \* calls of done(), error(); tracebacks displayed so far
    nEnable,                    \* calls of enable_alerts()
    nWrapperCalls,              \* invocations of the installed ip.showtraceback wrapper
    nOriginal,                  \* invocations of the shell's original showtraceback
    nHookAlerts,                \* _show_alert calls made by the wrapper
    nNotifySuccess,             \* _show_alert(success=True, ...) calls made by done()
    nNotifyError,               \* _show_alert(success=False, ...) calls made by error()
    last                        \* what the most recent operation did

vars == <<shell, env, loaded, _error_handler_installed, _error_occurred, wrapLayers,
          nDone, nError, nExc, nEnable, nWrapperCalls, nOriginal, nHookAlerts,
          nNotifySuccess, nNotifyError, last>>

----------------------------------------------------------------------------
(* Bounds *)

\* done(), error(), enable_alerts() calls and tracebacks in one explored session
MaxOps == 4
\* how far past the truncation length the longest exception message goes
MaxOver == 2

----------------------------------------------------------------------------
(* Strings *)

None == [some |-> FALSE, val |-> ""]
Some(s) == [some |-> TRUE, val |-> s]

Min(a, b) == IF a < b THEN a ELSE b

\* Python s[:n]
Slice(s, n) == SubSeq(s, 1, Min(n, Len(s)))

\* Python s[i:] with i 0-based, i.e. everything after the first i characters
Drop(s, i) == SubSeq(s, Min(i, Len(s)) + 1, Len(s))

CharAt(s, i) == SubSeq(s, i, i)

\* Python s.endswith(suf)
EndsWith(s, suf) ==
    /\ Len(s) >= Len(suf)
    /\ SubSeq(s, Len(s) - Len(suf) + 1, Len(s)) = suf

\* Python s.rfind(c) for a one-character c, 1-based; 0 when c does not occur
RFind(s, c) ==
    LET hits == {i \in 1..Len(s) : CharAt(s, i) = c}
    IN IF hits = {} THEN 0 ELSE CHOOSE i \in hits : \A j \in hits : j <= i

\* pathlib: Path(p).name for a path without trailing separators
PathName(p) == Drop(p, RFind(p, "/"))

\* pathlib: Path(p).stem: the name up to its last dot, unless that dot is the
\* first or the last character of the name
PathStem(p) ==
    LET name == PathName(p)
        j == RFind(name, ".")
    IN IF 1 < j /\ j < Len(name) THEN SubSeq(name, 1, j - 1) ELSE name

----------------------------------------------------------------------------
(* Environment *)

ShellKinds == {"ipython", "noshell", "noipython"}

\* One search location of _get_alert_script_path.  "raises" is Path.cwd() on a
\* deleted working directory (FileNotFoundError) and Path.home() when no home
\* directory can be determined (RuntimeError).
InstallProbes == {"found", "missing"}
DirProbes == {"found", "missing", "raises"}

\* ip.user_ns['__vsc_ipynb_file__']: not set, a path, or a value Path() rejects
\* with a TypeError (str = FALSE)
UserNsValues ==
    { [set |-> FALSE, str |-> FALSE, val |-> ""],
      [set |-> TRUE, str |-> TRUE, val |-> "/w/sales.report.ipynb"],
      [set |-> TRUE, str |-> FALSE, val |-> ""] }

\* psutil.Process().parent().cmdline(): unavailable (psutil missing, access
\* denied, no parent) or the argument list
ParentValues ==
    { [ok |-> FALSE, cmdline |-> <<>>],
      [ok |-> TRUE, cmdline |-> <<"python", "-m", "ipykernel_launcher">>],
      [ok |-> TRUE, cmdline |-> <<"papermill", "/nb/etl.ipynb", "/out/run.ipynb">>] }

Envs ==
    [install : InstallProbes, cwd : DirProbes, home : DirProbes,
     popen : {"ok", "raises"}, user_ns : UserNsValues, parent : ParentValues]

\* The user namespace belongs to the shell: without one there is no variable.
EnvFits(sh, e) == sh # "ipython" => ~e.user_ns.set

\* The sessions explored operation by operation: every outcome of the Notifier
\* search and of the spawn, under one label environment (a kernel started by
\* papermill, no VS Code variable).  A location the search never reaches and
\* a spawn that is never attempted are kept at "missing" and "ok".
SessionEnvs ==
    {e \in Envs : /\ ~e.user_ns.set
                  /\ e.parent.ok /\ Len(e.parent.cmdline) = 3
                  /\ e.parent.cmdline[1] = "papermill"
                  /\ e.install = "found" => e.cwd = "missing" /\ e.home = "missing"
                  /\ e.cwd # "missing" => e.home = "missing"
                  /\ "found" \notin {e.install, e.cwd, e.home} => e.popen = "ok"}

----------------------------------------------------------------------------
(* _get_notebook_name, lines 27-80 *)

\* lines 56-63: the variable VS Code injects into the user namespace.  A
\* strategy's result is [returned, val]: returned = FALSE when it fell
\* through (nothing found, or its exception was swallowed).
ProbeUserNs ==
    IF env.user_ns.set /\ env.user_ns.str
    THEN [returned |-> TRUE, val |-> PathStem(env.user_ns.val)]
    ELSE [returned |-> FALSE, val |-> ""]

\* lines 72-74: the first argument ending in .ipynb
RECURSIVE FirstNotebookArg(_)
FirstNotebookArg(cmdline) ==
    IF cmdline = <<>> THEN [returned |-> FALSE, val |-> ""]
    ELSE IF EndsWith(Head(cmdline), ".ipynb")
         THEN [returned |-> TRUE, val |-> PathStem(Head(cmdline))]
         ELSE FirstNotebookArg(Tail(cmdline))

\* lines 66-76: the parent process's command line
ProbeParent ==
    IF env.parent.ok THEN FirstNotebookArg(env.parent.cmdline)
    ELSE [returned |-> FALSE, val |-> ""]

\* variant: the parent-process strategy is tried even when there is no shell
get_notebook_name_without_shell_check ==
    IF ProbeUserNs.returned THEN Some(ProbeUserNs.val)
    ELSE IF ProbeParent.returned THEN Some(ProbeParent.val)
    ELSE None

_get_notebook_name ==
    IF shell = "noipython" THEN None          \* ImportError, lines 79-80
    ELSE IF shell = "noshell" THEN None       \* lines 33-34
    ELSE IF ProbeUserNs.returned THEN Some(ProbeUserNs.val)
    ELSE IF ProbeParent.returned THEN Some(ProbeParent.val)
    ELSE None                                 \* line 78

----------------------------------------------------------------------------
(* _get_alert_script_path, lines 83-102 *)

\* [raised, path]: raised when Path.cwd() or Path.home() raised before any
\* earlier location matched; path = None when no location holds the script.
_get_alert_script_path ==
    IF env.install = "found" THEN [raised |-> FALSE, path |-> Some("/pkg/_show_alert.py")]
    ELSE IF env.cwd = "raises" THEN [raised |-> TRUE, path |-> None]
    ELSE IF env.cwd = "found" THEN [raised |-> FALSE, path |-> Some("/cwd/_show_alert.py")]
    ELSE IF env.home = "raises" THEN [raised |-> TRUE, path |-> None]
    ELSE IF env.home = "found" THEN [raised |-> FALSE, path |-> Some("/home/_show_alert.py")]
    ELSE [raised |-> FALSE, path |-> None]

----------------------------------------------------------------------------
(* _show_alert, lines 105-131 *)

WarnNotFound == "(warn) Warning: _show_alert.py not found. Cannot show desktop alert."
WarnLaunch == "(warn) Warning: Could not launch alert: "

\* variant: the fallback line names the status and drops the message
FallbackLine_without_message(success, message) ==
    IF message # ""
    THEN "(check) " \o (IF success THEN "SUCCESS" ELSE "ERROR")
    ELSE ""

\* lines 112 and 131: the console line that carries the message
FallbackLine(success, message) ==
    IF message # ""
    THEN "(check) " \o (IF success THEN "SUCCESS" ELSE "ERROR") \o ": " \o message
    ELSE ""

\* One call of the Dispatcher: what it printed, the argv of the process it
\* spawned (<<>> when none), and whether an exception left it.
_show_alert(success, message) ==
    LET found == _get_alert_script_path
        alert_type == IF success THEN "success" ELSE "error"
        notebook_name == IF _get_notebook_name.some THEN _get_notebook_name.val ELSE ""
        call == [success |-> success, message |-> message]
    IN IF found.raised
       THEN call @@ [outcome |-> "raised", raised |-> TRUE, console |-> <<>>, argv |-> <<>>]
       ELSE IF ~found.path.some
       THEN call @@ [outcome |-> "notfound", raised |-> FALSE,
                     console |-> <<WarnNotFound, FallbackLine(success, message)>>,
                     argv |-> <<>>]
       ELSE IF env.popen = "ok"
       THEN call @@ [outcome |-> "spawned", raised |-> FALSE, console |-> <<>>,
                     argv |-> <<"python", found.path.val, alert_type, message,
                                notebook_name>>]
       ELSE call @@ [outcome |-> "spawnfail", raised |-> FALSE,
                     console |-> <<WarnLaunch, FallbackLine(success, message)>>,
                     argv |-> <<>>]

----------------------------------------------------------------------------
(* Inputs *)

\* str(exc_value)[:100], line 199
TruncLen == 100

\* a string of n characters whose i-th character is the digit i % 10
RECURSIVE Text(_)
Text(n) == IF n = 0 THEN "" ELSE Text(n - 1) \o CharAt("0123456789", (n % 10) + 1)

DoneDefault == "Notebook completed successfully!"
ErrorDefault == "Notebook encountered an error!"
DoneMessages == {DoneDefault, "Processed 1000 rows", ""}
ErrorMessages == {ErrorDefault, "Processing failed!", ""}

KindNames == {"KeyError", "ZeroDivisionError"}
ExcLengths == {0, 7, TruncLen} \cup {TruncLen + k : k \in 1..MaxOver}

\* sys.exc_info() as the wrapper sees it: no exception being handled ("none"),
\* an exception whose str() works ("ok"), one whose __str__ raises ("strfails")
ExcInfos ==
    {[ctx |-> "none", kind |-> "", msg |-> ""]}
    \cup [ctx : {"ok"}, kind : KindNames, msg : {Text(n) : n \in ExcLengths}]
    \cup [ctx : {"strfails"}, kind : {"KeyError"}, msg : {""}]

NoExc == [ctx |-> "none", kind |-> "", msg |-> ""]

\* the positional arguments IPython passes to showtraceback
TracebackArgs == {<<>>, <<"exc_tuple">>}

----------------------------------------------------------------------------
(* custom_showtraceback, lines 183-205 *)

GenericMessage == "An error occurred during execution"

\* variant: the exception's message is not cut
ErrorMsg_untruncated(exc) ==
    IF exc.ctx = "ok" THEN exc.kind \o ": " \o exc.msg
    ELSE GenericMessage

\* lines 195-203
ErrorMsg(exc) ==
    IF exc.ctx = "ok" THEN exc.kind \o ": " \o Slice(exc.msg, TruncLen)
    ELSE GenericMessage

\* variant: the wrapper alerts without recording that it did
custom_showtraceback_never_sets_flag(r, exc) ==
    IF r.raised THEN r
    ELSE IF r.occurred
    THEN [r EXCEPT !.events = @ \o <<[ev |-> "read_flag", val |-> TRUE]>>]
    ELSE LET d == _show_alert(FALSE, ErrorMsg(exc))
         IN [events |-> r.events \o <<[ev |-> "read_flag", val |-> FALSE],
                                       [ev |-> "notify", call |-> d]>>,
             occurred |-> FALSE,
             raised |-> d.raised]

\* variant: the wrapper alerts first and shows the traceback afterwards
custom_showtraceback_alert_first(r, exc) ==
    IF r.raised THEN r
    ELSE IF r.occurred
    THEN [r EXCEPT !.events = <<[ev |-> "read_flag", val |-> TRUE]>> \o @]
    ELSE LET d == _show_alert(FALSE, ErrorMsg(exc))
         IN [events |-> <<[ev |-> "read_flag", val |-> FALSE],
                          [ev |-> "write_flag", val |-> TRUE],
                          [ev |-> "notify", call |-> d]>> \o r.events,
             occurred |-> TRUE,
             raised |-> d.raised]

\* One wrapper layer around the result of the routine it wraps.  r is what
\* the wrapped routine did: [events, occurred, raised].
custom_showtraceback(r, exc) ==
    IF r.raised THEN r
    ELSE IF r.occurred
    THEN [r EXCEPT !.events = @ \o <<[ev |-> "read_flag", val |-> TRUE]>>]
    ELSE LET d == _show_alert(FALSE, ErrorMsg(exc))
         IN [events |-> r.events \o <<[ev |-> "read_flag", val |-> FALSE],
                                       [ev |-> "write_flag", val |-> TRUE],
                                       [ev |-> "notify", call |-> d]>>,
             occurred |-> TRUE,
             raised |-> d.raised]

\* ip.showtraceback(*args) with `layers` wrappers installed over the original
RECURSIVE showtraceback(_, _, _, _)
showtraceback(layers, args, exc, occurred) ==
    IF layers = 0
    THEN [events |-> <<[ev |-> "original", args |-> args]>>,
          occurred |-> occurred, raised |-> FALSE]
    ELSE custom_showtraceback(showtraceback(layers - 1, args, exc, occurred), exc)

----------------------------------------------------------------------------
(* _setup_auto_error_detection, lines 166-215 *)

BannerInstalled == "(check) Auto-error detection enabled - will alert if any cell fails!"

\* variant: no check of _error_handler_installed, every call wraps again
setup_without_installed_guard ==
    IF shell = "noipython"
    THEN [installed |-> _error_handler_installed, layers |-> wrapLayers,
          console |-> <<>>, raised |-> FALSE]
    ELSE IF shell = "noshell"
    THEN [installed |-> _error_handler_installed, layers |-> wrapLayers,
          console |-> <<>>, raised |-> FALSE]
    ELSE [installed |-> TRUE, layers |-> wrapLayers + 1,
          console |-> <<BannerInstalled>>, raised |-> FALSE]

\* variant: the flag is set before the shell is looked up
setup_sets_flag_before_shell_check ==
    IF _error_handler_installed
    THEN [installed |-> TRUE, layers |-> wrapLayers, console |-> <<>>, raised |-> FALSE]
    ELSE IF shell = "noipython"
    THEN [installed |-> TRUE, layers |-> wrapLayers, console |-> <<>>, raised |-> FALSE]
    ELSE IF shell = "noshell"
    THEN [installed |-> TRUE, layers |-> wrapLayers, console |-> <<>>, raised |-> FALSE]
    ELSE [installed |-> TRUE, layers |-> wrapLayers + 1,
          console |-> <<BannerInstalled>>, raised |-> FALSE]

\* The globals and the wrapper count after one call, what it printed, and
\* whether an exception left it (the ImportError of a missing IPython is
\* caught at lines 213-215).
_setup_auto_error_detection ==
    IF _error_handler_installed
    THEN [installed |-> TRUE, layers |-> wrapLayers, console |-> <<>>, raised |-> FALSE]
    ELSE IF shell = "noipython"
    THEN [installed |-> FALSE, layers |-> wrapLayers, console |-> <<>>, raised |-> FALSE]
    ELSE IF shell = "noshell"
    THEN [installed |-> FALSE, layers |-> wrapLayers, console |-> <<>>, raised |-> FALSE]
    ELSE [installed |-> TRUE, layers |-> wrapLayers + 1,
          console |-> <<BannerInstalled>>, raised |-> FALSE]

----------------------------------------------------------------------------
(* Session *)

Count(events, kind) == Cardinality({i \in 1..Len(events) : events[i].ev = kind})

Op(name) ==
    [op |-> name, message |-> "", args |-> <<>>, exc |-> NoExc, events |-> <<>>,
     raised |-> FALSE, console |-> <<>>,
     installedBefore |-> _error_handler_installed,
     occurredBefore |-> _error_occurred,
     layersBefore |-> wrapLayers]

nOps == nDone + nError + nExc + nEnable

Init ==
    /\ shell \in ShellKinds
    /\ env \in SessionEnvs
    /\ loaded = FALSE
    /\ _error_handler_installed = FALSE
    /\ _error_occurred = FALSE
    /\ wrapLayers = 0
    /\ nDone = 0 /\ nError = 0 /\ nExc = 0 /\ nEnable = 0
    /\ nWrapperCalls = 0 /\ nOriginal = 0 /\ nHookAlerts = 0
    /\ nNotifySuccess = 0 /\ nNotifyError = 0
    /\ last = [op |-> "start", message |-> "", args |-> <<>>, exc |-> NoExc,
               events |-> <<>>, raised |-> FALSE, console |-> <<>>,
               installedBefore |-> FALSE, occurredBefore |-> FALSE, layersBefore |-> 0]

\* line 219: importing the module runs the install once
Import ==
    /\ ~loaded
    /\ loaded' = TRUE
    /\ _error_handler_installed' = _setup_auto_error_detection.installed
    /\ wrapLayers' = _setup_auto_error_detection.layers
    /\ last' = [Op("import") EXCEPT !.console = _setup_auto_error_detection.console,
                                     !.raised = _setup_auto_error_detection.raised]
    /\ UNCHANGED <<shell, env, _error_occurred, nDone, nError, nExc, nEnable,
                   nWrapperCalls, nOriginal, nHookAlerts, nNotifySuccess, nNotifyError>>

\* lines 222-234
enable_alerts ==
    /\ loaded /\ nOps < MaxOps
    /\ _error_handler_installed' = _setup_auto_error_detection.installed
    /\ wrapLayers' = _setup_auto_error_detection.layers
    /\ last' = [Op("enable_alerts") EXCEPT
                   !.raised = _setup_auto_error_detection.raised,
                   !.console = IF _setup_auto_error_detection.raised
                               THEN _setup_auto_error_detection.console
                               ELSE _setup_auto_error_detection.console \o
                                    <<"(check) Notebook alerts enabled!",
                                      "  - Errors will trigger automatic red alerts",
                                      "  - Call done() in last cell for success alert">>]
    /\ nEnable' = nEnable + 1
    /\ UNCHANGED <<shell, env, loaded, _error_occurred, nDone, nError, nExc,
                   nWrapperCalls, nOriginal, nHookAlerts, nNotifySuccess, nNotifyError>>

\* lines 134-146: what one call of done(message) does
DoneEffect(message) ==
    LET d == _show_alert(TRUE, message)
    IN [events |-> <<[ev |-> "notify", call |-> d]>>,
        raised |-> d.raised,
        console |-> IF d.raised THEN d.console
                    ELSE d.console \o <<"(check) " \o message>>,
        installed |-> _error_handler_installed,
        occurred |-> _error_occurred]

\* variant: error() is rate-limited by _error_occurred like the hook
ErrorEffect_rate_limited(message) ==
    IF _error_occurred
    THEN [events |-> <<>>, raised |-> FALSE, console |-> <<"(cross) " \o message>>,
          installed |-> _error_handler_installed, occurred |-> _error_occurred]
    ELSE LET d == _show_alert(FALSE, message)
         IN [events |-> <<[ev |-> "notify", call |-> d]>>,
             raised |-> d.raised,
             console |-> IF d.raised THEN d.console
                         ELSE d.console \o <<"(cross) " \o message>>,
             installed |-> _error_handler_installed,
             occurred |-> _error_occurred]

\* variant: a manual error() marks the session as alerted
ErrorEffect_sets_flag(message) ==
    LET d == _show_alert(FALSE, message)
    IN [events |-> <<[ev |-> "notify", call |-> d]>>,
        raised |-> d.raised,
        console |-> IF d.raised THEN d.console
                    ELSE d.console \o <<"(cross) " \o message>>,
        installed |-> _error_handler_installed,
        occurred |-> TRUE]

\* lines 149-158: what one call of error(message) does
ErrorEffect(message) ==
    LET d == _show_alert(FALSE, message)
    IN [events |-> <<[ev |-> "notify", call |-> d]>>,
        raised |-> d.raised,
        console |-> IF d.raised THEN d.console
                    ELSE d.console \o <<"(cross) " \o message>>,
        installed |-> _error_handler_installed,
        occurred |-> _error_occurred]

done ==
    /\ loaded /\ nOps < MaxOps
    /\ \E message \in DoneMessages :
          LET e == DoneEffect(message)
          IN /\ last' = [Op("done") EXCEPT !.message = message, !.events = e.events,
                                           !.raised = e.raised, !.console = e.console]
             /\ _error_handler_installed' = e.installed
             /\ _error_occurred' = e.occurred
             /\ nNotifySuccess' = nNotifySuccess
                    + Cardinality({i \in 1..Len(e.events) :
                                     e.events[i].ev = "notify" /\ e.events[i].call.success})
    /\ nDone' = nDone + 1
    /\ UNCHANGED <<shell, env, loaded, wrapLayers, nError, nExc, nEnable, nWrapperCalls,
                   nOriginal, nHookAlerts, nNotifyError>>

error ==
    /\ loaded /\ nOps < MaxOps
    /\ \E message \in ErrorMessages :
          LET e == ErrorEffect(message)
          IN /\ last' = [Op("error") EXCEPT !.message = message, !.events = e.events,
                                            !.raised = e.raised, !.console = e.console]
             /\ _error_handler_installed' = e.installed
             /\ _error_occurred' = e.occurred
             /\ nNotifyError' = nNotifyError
                    + Cardinality({i \in 1..Len(e.events) :
                                     e.events[i].ev = "notify" /\ ~e.events[i].call.success})
    /\ nError' = nError + 1
    /\ UNCHANGED <<shell, env, loaded, wrapLayers, nDone, nExc, nEnable, nWrapperCalls,
                   nOriginal, nHookAlerts, nNotifySuccess>>

\* A cell raises an uncaught exception.  Under IPython the shell reports it
\* through ip.showtraceback; without a shell the interpreter's own excepthook
\* does, and no code of the module runs.
UncaughtException ==
    /\ nOps < MaxOps
    /\ \E args \in TracebackArgs, exc \in ExcInfos \ {NoExc} :
          IF shell = "ipython"
          THEN LET r == showtraceback(wrapLayers, args, exc, _error_occurred)
               IN /\ last' = [Op("exception") EXCEPT !.args = args, !.exc = exc,
                                  !.events = r.events, !.raised = r.raised]
                  /\ _error_occurred' = r.occurred
                  /\ nWrapperCalls' = nWrapperCalls + (IF wrapLayers > 0 THEN 1 ELSE 0)
                  /\ nOriginal' = nOriginal + Count(r.events, "original")
                  /\ nHookAlerts' = nHookAlerts + Count(r.events, "notify")
          ELSE /\ last' = [Op("exception") EXCEPT !.args = args, !.exc = exc]
               /\ UNCHANGED <<_error_occurred, nWrapperCalls, nOriginal, nHookAlerts>>
    /\ nExc' = nExc + 1
    /\ UNCHANGED <<shell, env, loaded, _error_handler_installed, wrapLayers, nDone,
                   nError, nEnable, nNotifySuccess, nNotifyError>>

\* The shell displays a traceback while no exception is being handled (a
\* direct call of ip.showtraceback), so sys.exc_info() is empty.
ShowTracebackNoContext ==
    /\ shell = "ipython" /\ nOps < MaxOps
    /\ \E args \in TracebackArgs :
          LET r == showtraceback(wrapLayers, args, NoExc, _error_occurred)
          IN /\ last' = [Op("exception") EXCEPT !.args = args, !.exc = NoExc,
                             !.events = r.events, !.raised = r.raised]
             /\ _error_occurred' = r.occurred
             /\ nWrapperCalls' = nWrapperCalls + (IF wrapLayers > 0 THEN 1 ELSE 0)
             /\ nOriginal' = nOriginal + Count(r.events, "original")
             /\ nHookAlerts' = nHookAlerts + Count(r.events, "notify")
    /\ nExc' = nExc + 1
    /\ UNCHANGED <<shell, env, loaded, _error_handler_installed, wrapLayers, nDone,
                   nError, nEnable, nNotifySuccess, nNotifyError>>

Next ==
    \/ Import
    \/ enable_alerts
    \/ done
    \/ error
    \/ UncaughtException
    \/ ShowTracebackNoContext

Spec == Init /\ [][Next]_vars

----------------------------------------------------------------------------
(* Label resolution on its own: every label environment, one probe *)

LabelInit ==
    /\ shell \in ShellKinds
    /\ env \in Envs
    /\ EnvFits(shell, env)
    /\ loaded = FALSE
    /\ _error_handler_installed = FALSE
    /\ _error_occurred = FALSE
    /\ wrapLayers = 0
    /\ nDone = 0 /\ nError = 0 /\ nExc = 0 /\ nEnable = 0
    /\ nWrapperCalls = 0 /\ nOriginal = 0 /\ nHookAlerts = 0
    /\ nNotifySuccess = 0 /\ nNotifyError = 0
    /\ last = [op |-> "start", message |-> "", args |-> <<>>, exc |-> NoExc,
               events |-> <<>>, raised |-> FALSE, console |-> <<>>,
               installedBefore |-> FALSE, occurredBefore |-> FALSE, layersBefore |-> 0]

ProbeLabel ==
    /\ last.op = "start"
    /\ last' = [Op("_get_notebook_name") EXCEPT
                   !.events = <<[ev |-> "label", result |-> _get_notebook_name]>>]
    /\ UNCHANGED <<shell, env, loaded, _error_handler_installed, _error_occurred,
                   wrapLayers, nDone, nError, nExc, nEnable, nWrapperCalls, nOriginal,
                   nHookAlerts, nNotifySuccess, nNotifyError>>

LabelNext == ProbeLabel

LabelSpec == LabelInit /\ [][LabelNext]_vars

----------------------------------------------------------------------------
(* Properties *)

\* the Dispatcher calls of the most recent operation
Notifies == {i \in 1..Len(last.events) : last.events[i].ev = "notify"}

\* the most recent operation was a traceback shown through the installed wrapper
WrapperRan == last.op = "exception" /\ shell = "ipython" /\ last.layersBefore >= 1

\* C1: with the hook installed, any number N >= 1 of wrapper invocations
\* produces exactly one _show_alert(success=False) call from the hook: the
\* first invocation makes it, every later one makes none.
C1_OneHookAlertPerSession ==
    /\ nHookAlerts = (IF nWrapperCalls >= 1 THEN 1 ELSE 0)
    /\ WrapperRan =>
          /\ Cardinality(Notifies) = (IF nWrapperCalls = 1 THEN 1 ELSE 0)
          /\ \A i \in Notifies : ~last.events[i].call.success

C1_Witness ==
    /\ WrapperRan
    /\ nWrapperCalls >= 3
    /\ nHookAlerts = 1
    /\ Notifies = {}

\* C2: after any number of install calls (the import plus enable_alerts()
\* calls) ip.showtraceback carries exactly one wrapper layer when the hook is
\* installed and none otherwise, and a displayed traceback runs the original
\* routine exactly once and alerts at most once.
C2_InstallIsIdempotent ==
    /\ wrapLayers = (IF _error_handler_installed THEN 1 ELSE 0)
    /\ (last.op = "enable_alerts" /\ last.installedBefore) =>
          /\ wrapLayers = last.layersBefore
          /\ _error_handler_installed
    /\ (last.op = "exception" /\ shell = "ipython") =>
          /\ Count(last.events, "original") = 1
          /\ Cardinality(Notifies) <= 1
    /\ nOriginal = (IF shell = "ipython" THEN nExc ELSE 0)

C2_Witness ==
    /\ nEnable >= 2
    /\ WrapperRan
    /\ wrapLayers = 1
    /\ Count(last.events, "original") = 1

\* C3: every done() call makes exactly one _show_alert(success=True) call and
\* every error() call exactly one _show_alert(success=False) call, with the
\* caller's message, whatever _error_occurred and _error_handler_installed are.
C3_ManualAlertsUnlimited ==
    /\ nNotifySuccess = nDone
    /\ nNotifyError = nError
    /\ last.op = "done" =>
          /\ Len(last.events) = 1 /\ Notifies = {1}
          /\ last.events[1].call.success
          /\ last.events[1].call.message = last.message
    /\ last.op = "error" =>
          /\ Len(last.events) = 1 /\ Notifies = {1}
          /\ ~last.events[1].call.success
          /\ last.events[1].call.message = last.message

C3_Witness ==
    /\ last.op = "error"
    /\ last.occurredBefore
    /\ nError >= 2
    /\ nDone >= 1
    /\ nNotifyError = nError

\* C4: done() and error() leave _error_occurred, _error_handler_installed and
\* the wrapper untouched; _error_occurred is set only by the hook's own alert,
\* so the first wrapped traceback after manual error() calls still alerts, and
\* error() still dispatches after the hook has alerted.
C4_ManualCallsKeepSessionState ==
    /\ last.op \in {"done", "error"} =>
          /\ _error_occurred = last.occurredBefore
          /\ _error_handler_installed = last.installedBefore
          /\ wrapLayers = last.layersBefore
    /\ _error_occurred <=> nHookAlerts >= 1
    /\ (WrapperRan /\ nWrapperCalls = 1) => Cardinality(Notifies) = 1
    /\ (last.op = "error" /\ last.occurredBefore) => Cardinality(Notifies) = 1

C4_Witness ==
    /\ WrapperRan
    /\ nWrapperCalls = 1
    /\ nError >= 2
    /\ Cardinality(Notifies) = 1

AllMissing == env.install = "missing" /\ env.cwd = "missing" /\ env.home = "missing"

\* C5: when the script is in none of the three locations, a Dispatcher call
\* does not raise, spawns nothing, and prints the warning followed by a line
\* that ends with the caller's message (the empty line for an empty message).
C5_NotFoundFallsBackToConsole ==
    AllMissing =>
        \A i \in Notifies :
            LET d == last.events[i].call
            IN /\ ~d.raised
               /\ d.argv = <<>>
               /\ Len(d.console) = 2
               /\ d.console[1] = WarnNotFound
               /\ EndsWith(d.console[2], d.message)
               /\ d.message = "" <=> d.console[2] = ""

C5_Witness ==
    /\ AllMissing
    /\ last.op = "done"
    /\ last.message = ""
    /\ Notifies = {1}
    /\ last.events[1].call.console = <<WarnNotFound, "">>
    /\ nExc >= 1 /\ nHookAlerts = 1

\* C6: no Dispatcher call lets an exception out, so done(), error() and the
\* wrapper never raise a notification failure into the notebook.
C6_NotifyNeverRaises ==
    /\ \A i \in Notifies : ~last.events[i].call.raised
    /\ ~last.raised

\* C7: without an interactive shell the install (at import and in
\* enable_alerts()) raises nothing and installs nothing, and no traceback ever
\* produces an automatic alert.
C7_NoShellNoHook ==
    shell # "ipython" =>
        /\ ~_error_handler_installed
        /\ wrapLayers = 0
        /\ nWrapperCalls = 0
        /\ nHookAlerts = 0
        /\ last.op \in {"import", "enable_alerts"} => ~last.raised
        /\ last.op = "exception" => last.events = <<>> /\ ~last.raised

C7_Witness ==
    /\ shell = "noshell"
    /\ nEnable >= 2
    /\ nExc >= 2
    /\ last.op = "exception"

\* C9: every invocation of the installed wrapper begins with exactly one call
\* of the original routine, with the wrapper's arguments; the read and write
\* of _error_occurred and the Dispatcher call all come after it.
C9_OriginalRunsFirst ==
    WrapperRan =>
        /\ Len(last.events) >= 2
        /\ last.events[1] = [ev |-> "original", args |-> last.args]
        /\ Count(last.events, "original") = 1
        /\ last.events[2].ev = "read_flag"
        /\ last.events[2].val = last.occurredBefore
        /\ \A i \in 1..Len(last.events) :
              last.events[i].ev \in {"read_flag", "write_flag", "notify"} => i > 1

C9_Witness ==
    /\ WrapperRan
    /\ last.occurredBefore
    /\ last.args = <<"exc_tuple">>
    /\ last.events = <<[ev |-> "original", args |-> <<"exc_tuple">>],
                       [ev |-> "read_flag", val |-> TRUE]>>

\* C10 as stated: the description the hook hands to the Dispatcher is never
\* longer than 100 characters.
C10_DescriptionCappedAt100 ==
    WrapperRan => \A i \in Notifies : Len(last.events[i].call.message) <= TruncLen

\* C10 amended: the description is the kind name, ": ", and the first 100
\* characters of the exception's message, so it is at most
\* Len(kind) + 2 + 100 characters long; without an exception context (or when
\* str() of the exception fails) it is the generic message.
C10_MessagePartCappedAt100 ==
    WrapperRan =>
        \A i \in Notifies :
            LET desc == last.events[i].call.message
                kind == last.exc.kind
                head == Len(kind) + 2
            IN IF last.exc.ctx = "ok"
               THEN /\ Len(desc) = head + Min(Len(last.exc.msg), TruncLen)
                    /\ Len(desc) <= head + TruncLen
                    /\ SubSeq(desc, 1, Len(kind)) = kind
                    /\ SubSeq(desc, Len(kind) + 1, head) = ": "
                    /\ SubSeq(desc, head + 1, Len(desc))
                         = SubSeq(last.exc.msg, 1, Len(desc) - head)
               ELSE desc = "An error occurred during execution"

C10_Witness ==
    /\ WrapperRan
    /\ Notifies # {}
    /\ last.exc.ctx = "ok"
    /\ Len(last.exc.msg) > TruncLen
    /\ \A i \in Notifies : Len(last.events[i].call.message) = Len(last.exc.kind) + 2 + TruncLen

----------------------------------------------------------------------------
(* Properties of label resolution, under LabelSpec *)

Probed == last.op = "_get_notebook_name"
Label == last.events[1].result

\* what each strategy finds on its own
VarUsable == shell = "ipython" /\ env.user_ns.set /\ env.user_ns.str
ParentHasNotebook ==
    env.parent.ok /\ \E k \in 1..Len(env.parent.cmdline) :
                        EndsWith(env.parent.cmdline[k], ".ipynb")

\* C8 as stated: the result is that of the first strategy that succeeds, the
\* VS Code variable and then the parent's command line, a missing shell
\* counting as a failure of the first strategy only.
C8_FirstSuccessfulStrategy ==
    Probed =>
        IF VarUsable THEN Label = Some("sales.report")
        ELSE IF ParentHasNotebook THEN Label = Some("etl")
        ELSE Label = None

\* C8 amended: without a shell (IPython missing, or get_ipython() gives None)
\* the result is None and the parent's command line is not consulted; with a
\* shell the result is that of the first strategy that succeeds, the variable
\* and then the first .ipynb argument of the parent, and None when both fail.
C8_StrategiesNeedShell ==
    Probed =>
        IF shell # "ipython" THEN Label = None
        ELSE IF VarUsable THEN Label = Some("sales.report")
        ELSE IF ParentHasNotebook THEN Label = Some("etl")
        ELSE Label = None

C8_Witness ==
    /\ Probed
    /\ shell = "ipython"
    /\ env.user_ns.set /\ ~env.user_ns.str
    /\ ParentHasNotebook
    /\ Label = Some("etl")

====
